---- MODULE Spec2Model ----
(***************************************************************************)
(* Vector-tile feature geometry decoder (loadGeometry, bbox, toGeoJSON,    *)
(* classifyRings, signedArea) and the MercatorCoordinate projections.      *)
(*                                                                         *)
(* The byte buffer is shared by the features of a tile; pbf.pos is the one *)
(* mutable cursor.  A call runs to completion before the next one starts   *)
(* (single-threaded), and is modelled one loop iteration at a time.        *)
(***************************************************************************)
EXTENDS Integers, Sequences, FiniteSets, TLC

VARIABLES
    buf,        \* pbf.buf: the tile's bytes
    pos,        \* pbf.pos: the shared read cursor (0-based offset)
    features,   \* the VectorTileFeature objects: _geometry, type, extent
    pc,         \* "idle" | "loop" | "returned" | "thrown"
    call,       \* the running call: method, receiver, arguments
    loc,        \* the locals of the decode loop
    hist,       \* history of the running call: values read and points pushed
    result,     \* what the last call returned or threw
    first,      \* per feature, the outcome of its first loadGeometry call
    merc        \* the MercatorCoordinate round trip under way

vars == <<buf, pos, features, pc, call, loc, hist, result, first, merc>>

(***************************************************************************)
(* Bounds of the model.                                                    *)
(***************************************************************************)
MaxCmds == 3        \* command groups in the first feature's geometry
MaxRings == 3       \* rings in a polygon fixture
MaxDeg == 3         \* degrees spanned by the projection inputs

(***************************************************************************)
(* Values.                                                                 *)
(***************************************************************************)
\* new Point(x, y)
Point(px, py) == [kind |-> "Point", x |-> px, y |-> py]

\* Infinity of the bbox locals: larger than any coordinate the model reaches.
Infinity == 1000000

NegInfinity == 0 - Infinity

(***************************************************************************)
(* The protocol-buffer reader (pbf): varint and zigzag varint.             *)
(***************************************************************************)
RECURSIVE Pow2(_)
Pow2(n) == IF n = 0 THEN 1 ELSE 2 * Pow2(n - 1)

\* Little-endian base-128 varint at offset p; reading past the buffer fails.
RECURSIVE readVarintAt(_, _, _)
readVarintAt(b, p, shift) ==
    IF p >= Len(b)
    THEN [ok |-> FALSE, val |-> 0, pos |-> p]
    ELSE IF b[p + 1] < 128
         THEN [ok |-> TRUE, val |-> b[p + 1] * Pow2(shift), pos |-> p + 1]
         ELSE LET r == readVarintAt(b, p + 1, shift + 7)
              IN  [ok |-> r.ok,
                   val |-> (b[p + 1] % 128) * Pow2(shift) + r.val,
                   pos |-> r.pos]

readVarint(b, p) == readVarintAt(b, p, 0)

\* Zigzag decoding of a signed varint.
ZigZag(n) == IF n % 2 = 1 THEN 0 - ((n + 1) \div 2) ELSE n \div 2

readSVarint(b, p) ==
    LET r == readVarint(b, p)
    IN  [ok |-> r.ok, val |-> ZigZag(r.val), pos |-> r.pos]

(***************************************************************************)
(* The decode loop shared by loadGeometry and bbox.                        *)
(***************************************************************************)
\* pbf.pos = this._geometry of loadGeometry
StartPosStale(geometry, p) == p

StartPos(geometry, p) == geometry

\* pbf.pos = this._geometry of bbox
BboxStartPos(geometry, p) == geometry

\* cmd = cmdLen & 0x7
CommandOf(cmdLen) == cmdLen % 8

\* length = cmdLen >> 3
RepeatOf(cmdLen) == cmdLen \div 8

\* length-- of loadGeometry
Decrement(length) == length - 1

\* length-- of bbox
BboxDecrementStuck(length) == length

BboxDecrement(length) == length - 1

\* x += pbf.readSVarint()
AccumulateReset(v, d, cmd) == IF cmd = 1 THEN d ELSE v + d

Accumulate(v, d, cmd) == v + d

\* else if (cmd === 7) of loadGeometry; what is neither 1, 2 nor 7 throws
IsClosePathAny(cmd) == TRUE

IsClosePath(cmd) == cmd = 7

\* else if (cmd !== 7) of bbox
BboxUnknown(cmd) == cmd # 7

\* if (x < x1) x1 = x
LowerSwapped(bound, v) == IF v > bound THEN v ELSE bound

Lower(bound, v) == IF v < bound THEN v ELSE bound

\* if (x > x2) x2 = x
Upper(bound, v) == IF v > bound THEN v ELSE bound

\* The locals at entry: cmd = 1, length = 0, x = 0, y = 0, lines = [], line
\* undefined, x1 = y1 = Infinity, x2 = y2 = -Infinity.
EntryLocals(end) ==
    [end |-> end, cmd |-> 1, length |-> 0, x |-> 0, y |-> 0,
     lines |-> <<>>, open |-> FALSE, line |-> <<>>,
     x1 |-> Infinity, x2 |-> NegInfinity, y1 |-> Infinity, y2 |-> NegInfinity]

\* if (length <= 0) { cmdLen = readVarint(); cmd = cmdLen & 0x7;
\* length = cmdLen >> 3 }
Header(b, p, l) ==
    IF l.length <= 0
    THEN LET r == readVarint(b, p)
         IN  [ok |-> r.ok, pos |-> r.pos,
              cmd |-> IF r.ok THEN CommandOf(r.val) ELSE l.cmd,
              length |-> IF r.ok THEN RepeatOf(r.val) ELSE l.length]
    ELSE [ok |-> TRUE, pos |-> p, cmd |-> l.cmd, length |-> l.length]

\* The two readSVarint calls of a MoveTo or LineTo.
Deltas(b, p) ==
    LET dx == readSVarint(b, p)
        dy == readSVarint(b, dx.pos)
    IN  IF ~dx.ok THEN [ok |-> FALSE, pos |-> dx.pos, dx |-> 0, dy |-> 0]
        ELSE [ok |-> dy.ok, pos |-> dy.pos, dx |-> dx.val, dy |-> dy.val]

Outcome(p, l, err, deltas) == [pos |-> p, loc |-> l, err |-> err, deltas |-> deltas]

\* One iteration of the while loop of loadGeometry on locals l, given what
\* its reads return: the command header h and, for a MoveTo or LineTo, the
\* deltas d.
LoadGeometryStep(l, h, d) ==
    LET l1 == [l EXCEPT !.cmd = h.cmd, !.length = Decrement(h.length)]
    IN  IF ~h.ok THEN Outcome(h.pos, l, "MalformedBuffer", <<>>)
        ELSE IF h.cmd = 1 \/ h.cmd = 2
        THEN LET nx == Accumulate(l.x, d.dx, h.cmd)
                 ny == Accumulate(l.y, d.dy, h.cmd)
                 l2 == [l1 EXCEPT !.x = nx, !.y = ny]
                 \* moveTo: if (line) lines.push(line); line = []
                 l3 == IF h.cmd = 1
                       THEN [l2 EXCEPT
                               !.lines = IF l.open THEN Append(l.lines, l.line)
                                         ELSE l.lines,
                               !.open = TRUE,
                               !.line = <<>>]
                       ELSE l2
             IN  IF ~d.ok THEN Outcome(d.pos, l1, "MalformedBuffer", <<>>)
                 \* line.push(...) with line undefined
                 ELSE IF ~l3.open
                 THEN Outcome(d.pos, l3, "TypeError", <<d.dx, d.dy>>)
                 ELSE Outcome(d.pos,
                              [l3 EXCEPT !.line = Append(l3.line, Point(nx, ny))],
                              "", <<d.dx, d.dy>>)
        ELSE IF IsClosePath(h.cmd)
        \* closePolygon: if (line) line.push(line[0].clone())
        THEN Outcome(h.pos,
                     IF l.open THEN [l1 EXCEPT !.line = Append(l.line, l.line[1])]
                     ELSE l1,
                     "", <<>>)
        ELSE Outcome(h.pos, l1, "UnknownCommand", <<>>)

LoadGeometryBody(b, p, l) ==
    LoadGeometryStep(l, Header(b, p, l), Deltas(b, Header(b, p, l).pos))

\* One iteration of the while loop of bbox, likewise.
BboxStep(l, h, d) ==
    LET l1 == [l EXCEPT !.cmd = h.cmd, !.length = BboxDecrement(h.length)]
    IN  IF ~h.ok THEN Outcome(h.pos, l, "MalformedBuffer", <<>>)
        ELSE IF h.cmd = 1 \/ h.cmd = 2
        THEN LET nx == Accumulate(l.x, d.dx, h.cmd)
                 ny == Accumulate(l.y, d.dy, h.cmd)
             IN  IF ~d.ok THEN Outcome(d.pos, l1, "MalformedBuffer", <<>>)
                 ELSE Outcome(d.pos,
                              [l1 EXCEPT !.x = nx, !.y = ny,
                                         !.x1 = Lower(l.x1, nx),
                                         !.x2 = Upper(l.x2, nx),
                                         !.y1 = Lower(l.y1, ny),
                                         !.y2 = Upper(l.y2, ny)],
                              "", <<d.dx, d.dy>>)
        ELSE IF BboxUnknown(h.cmd)
        THEN Outcome(h.pos, l1, "UnknownCommand", <<>>)
        ELSE Outcome(h.pos, l1, "", <<>>)

BboxBody(b, p, l) ==
    BboxStep(l, Header(b, p, l), Deltas(b, Header(b, p, l).pos))

\* if (line) lines.push(line); return lines
LoadGeometryReturn(l) == IF l.open THEN Append(l.lines, l.line) ELSE l.lines

\* loadGeometry as one call on buffer b from geometry offset g: the lines
\* returned, or the error thrown.
RECURSIVE LoadGeometryLoop(_, _, _)
LoadGeometryLoop(b, p, l) ==
    IF ~(p < l.end) THEN [err |-> "", lines |-> LoadGeometryReturn(l)]
    ELSE LET r == LoadGeometryBody(b, p, l)
         IN  IF r.err # "" THEN [err |-> r.err, lines |-> <<>>]
             ELSE LoadGeometryLoop(b, r.pos, r.loc)

loadGeometry(b, g) ==
    LET r == readVarint(b, g)
    IN  IF ~r.ok THEN [err |-> "MalformedBuffer", lines |-> <<>>]
        ELSE LoadGeometryLoop(b, r.pos, EntryLocals(r.val + r.pos))

\* return [x1, y1, x2, y2]
BboxReturn(l) == <<l.x1, l.y1, l.x2, l.y2>>

(***************************************************************************)
(* Exact rational arithmetic for the linear projections: <<n, d>> with     *)
(* d > 0 in lowest terms; d = 0 stands for the non-finite result of a      *)
(* division by zero.                                                       *)
(***************************************************************************)
Abs(n) == IF n < 0 THEN 0 - n ELSE n

RECURSIVE GCD(_, _)
GCD(a, b) == IF b = 0 THEN a ELSE GCD(b, a % b)

Rat(n, d) ==
    IF d = 0 THEN <<IF n > 0 THEN 1 ELSE IF n < 0 THEN 0 - 1 ELSE 0, 0>>
    ELSE LET g == GCD(Abs(n), Abs(d))
             s == IF d < 0 THEN 0 - 1 ELSE 1
         IN  <<(s * n) \div g, (s * d) \div g>>

FromInt(n) == <<n, 1>>

IsFinite(a) == a[2] # 0

RatAdd(a, b) == Rat(a[1] * b[2] + b[1] * a[2], a[2] * b[2])

RatSub(a, b) == Rat(a[1] * b[2] - b[1] * a[2], a[2] * b[2])

RatMul(a, b) == Rat(a[1] * b[1], a[2] * b[2])

RatDiv(a, b) == Rat(a[1] * b[2], a[2] * b[1])

\* === on numbers: a non-finite value equals no finite one, NaN equals nothing
RatEq(a, b) == IsFinite(a) /\ IsFinite(b) /\ a = b

\* A value of a transcendental formula (log, tan, atan, exp, cos), kept as
\* the formula's name applied to its argument.
Sym(fn, arg) == [sym |-> fn, arg |-> arg]

(***************************************************************************)
(* LngLatBounds and the optional bounds argument.                          *)
(***************************************************************************)
NoBounds == [kind |-> "undefined"]

LngLatBounds(w, s, e, n) ==
    [kind |-> "LngLatBounds", west |-> w, south |-> s, east |-> e, north |-> n]

\* if (bounds)
Given(bounds) == bounds.kind # "undefined"

(***************************************************************************)
(* classifyRings and signedArea.                                           *)
(***************************************************************************)
\* The shoelace sum: i runs over the ring, j is the index before i (the
\* last index for the first i).
RECURSIVE SignedAreaFrom(_, _)
SignedAreaFrom(ring, i) ==
    IF i > Len(ring) THEN 0
    ELSE LET j  == IF i = 1 THEN Len(ring) ELSE i - 1
             p1 == ring[i]
             p2 == ring[j]
         IN  (p2.x - p1.x) * (p1.y + p2.y) + SignedAreaFrom(ring, i + 1)

signedArea(ring) == SignedAreaFrom(ring, 1)

\* if (area === 0) continue
IsDegenerateNever(area) == FALSE

IsDegenerate(area) == area = 0

\* if (ccw === undefined) ccw = area < 0
RefWindingFixed(ccw, area) == IF ccw = "undefined" THEN "false" ELSE ccw

RefWinding(ccw, area) ==
    IF ccw = "undefined" THEN (IF area < 0 THEN "true" ELSE "false") ELSE ccw

\* if (ccw === area < 0)
SameWinding(ccw, area) == ccw = (IF area < 0 THEN "true" ELSE "false")

\* The locals of classifyRings before the loop: polygons = [], polygon and
\* ccw undefined.
ClassifyEntry ==
    [polygons |-> <<>>, open |-> FALSE, polygon |-> <<>>, ccw |-> "undefined",
     err |-> ""]

\* The body of the for loop of classifyRings, for rings[i].
ClassifyBody(c, ring) ==
    LET area == signedArea(ring)
        ccw  == RefWinding(c.ccw, area)
    IN  IF c.err # "" THEN c
        ELSE IF IsDegenerate(area) THEN c
        ELSE IF SameWinding(ccw, area)
        THEN [c EXCEPT !.ccw = ccw,
                       !.polygons = IF c.open THEN Append(c.polygons, c.polygon)
                                    ELSE c.polygons,
                       !.open = TRUE,
                       !.polygon = <<ring>>]
        \* polygon.push(rings[i]) with polygon undefined
        ELSE IF ~c.open THEN [c EXCEPT !.ccw = ccw, !.err = "TypeError"]
        ELSE [c EXCEPT !.ccw = ccw, !.polygon = Append(c.polygon, ring)]

RECURSIVE ClassifyLoop(_, _, _)
ClassifyLoop(c, rings, i) ==
    IF i > Len(rings) THEN c
    ELSE ClassifyLoop(ClassifyBody(c, rings[i]), rings, i + 1)

\* classifyRings(rings): the polygons, or the error thrown.
classifyRings(rings) ==
    IF Len(rings) <= 1 THEN [polygons |-> <<rings>>, err |-> ""]
    ELSE LET c == ClassifyLoop(ClassifyEntry, rings, 1)
         IN  [polygons |-> IF c.open THEN Append(c.polygons, c.polygon)
                           ELSE c.polygons,
              err |-> c.err]

(***************************************************************************)
(* toGeoJSON.                                                              *)
(***************************************************************************)
\* VectorTileFeature.types
TypeName(t) ==
    CASE t = 1 -> "Point" [] t = 2 -> "LineString" [] t = 3 -> "Polygon"
      [] OTHER -> "Unknown"

MultiName(name) ==
    CASE name = "Point" -> "MultiPoint"
      [] name = "LineString" -> "MultiLineString"
      [] name = "Polygon" -> "MultiPolygon"
      [] OTHER -> "MultiUnknown"

\* A projected [a, b] pair.
Pair(a, b) == [kind |-> "pair", lng |-> a, lat |-> b]

\* A JavaScript array passed as an argument.
Arr(items) == [kind |-> "Array", items |-> items]

\* mercatorProject(line): every point replaced by [lng, lat].
mercatorProject(line, x0, y0, size) ==
    [j \in 1..Len(line) |->
        LET p  == line[j]
            y2 == RatSub(FromInt(180), Rat((p.y + y0) * 360, size))
        IN  Pair(RatSub(Rat((p.x + x0) * 360, size), FromInt(180)),
                 Sym("latFromY2", y2))]

\* gaussProject(line, bounds): the two arguments after the call.  The loop
\* runs while j < line.length, and writes line[j].
gaussProject(line, bounds, x0, y0, size) ==
    IF line.kind # "Array"
    \* line.length is undefined and j < undefined is false: no iteration
    THEN [line |-> line, bounds |-> bounds]
    ELSE [line |-> Arr([j \in 1..Len(line.items) |->
                LET p      == line.items[j]
                    width  == bounds.east - bounds.west
                    height == bounds.north - bounds.south
                IN  Pair(RatAdd(RatMul(Rat(p.x + x0, size), FromInt(width)),
                                FromInt(bounds.west)),
                         RatSub(FromInt(bounds.north),
                                RatMul(Rat(p.y + y0, size), FromInt(height))))]),
          bounds |-> bounds]

\* project = bounds ? gaussProject.bind(null, bounds) : mercatorProject;
\* project(line) leaves the array `line` as returned here.  bind(null, bounds)
\* fixes the FIRST parameter, so the call is gaussProject(bounds, line).
project(bounds, line, x0, y0, size) ==
    IF Given(bounds)
    THEN gaussProject(bounds, Arr(line), x0, y0, size).bounds.items
    ELSE mercatorProject(line, x0, y0, size)

\* type = coords.length === 1 ? type : `Multi${type}`
GeometryTypeLax(name, n) == IF n <= 1 THEN name ELSE MultiName(name)

GeometryType(name, n) == IF n = 1 THEN name ELSE MultiName(name)

\* The switch on this.type: the top-level coords array after it.
SwitchCoords(type, lines, bounds, x0, y0, size) ==
    CASE type = 1 ->
           project(bounds, [i \in 1..Len(lines) |-> lines[i][1]], x0, y0, size)
      [] type = 2 ->
           [i \in 1..Len(lines) |-> project(bounds, lines[i], x0, y0, size)]
      [] type = 3 ->
           LET polys == classifyRings(lines).polygons
           IN  [i \in 1..Len(polys) |->
                  [j \in 1..Len(polys[i]) |->
                     project(bounds, polys[i][j], x0, y0, size)]]
      [] OTHER -> lines

\* toGeoJSON after loadGeometry returned `lines`: geometry.type and
\* geometry.coordinates, or the error classifyRings threw.
toGeoJSON(type, extent, lines, x, y, z, bounds) ==
    LET size   == extent * Pow2(z)
        x0     == extent * x
        y0     == extent * y
        err    == IF type = 3 THEN classifyRings(lines).err ELSE ""
        coords == SwitchCoords(type, lines, bounds, x0, y0, size)
    IN  IF err # "" THEN [err |-> err, type |-> "", groups |-> 0, coordinates |-> <<>>]
        ELSE [err |-> "",
              type |-> GeometryType(TypeName(type), Len(coords)),
              groups |-> Len(coords),
              coordinates |-> IF Len(coords) = 1 THEN coords[1] ELSE coords]

(***************************************************************************)
(* MercatorCoordinate: forward and inverse projections.  Arguments and     *)
(* results are rationals under a bounds argument.                          *)
(***************************************************************************)
mercatorXfromLng(lng, bounds) ==
    IF Given(bounds)
    THEN RatDiv(RatSub(lng, FromInt(bounds.west)),
                FromInt(bounds.east - bounds.west))
    ELSE RatDiv(RatAdd(FromInt(180), lng), FromInt(360))

mercatorYfromLat(lat, bounds) ==
    IF Given(bounds)
    THEN RatDiv(RatSub(FromInt(bounds.north), lat),
                FromInt(bounds.north - bounds.south))
    ELSE Sym("mercatorYfromLat", lat)

mercatorZfromAltitude(altitude, lat, bounds) ==
    IF Given(bounds)
    THEN RatDiv(altitude, RatSub(FromInt(bounds.north), lat))
    ELSE Sym("mercatorZfromAltitude", <<altitude, lat>>)

lngFromMercatorX(x, bounds) ==
    IF Given(bounds)
    THEN RatAdd(RatMul(x, FromInt(bounds.east - bounds.west)),
                FromInt(bounds.west))
    ELSE RatSub(RatMul(x, FromInt(360)), FromInt(180))

latFromMercatorY(y, bounds) ==
    IF Given(bounds)
    THEN RatSub(FromInt(bounds.north),
                RatMul(y, FromInt(bounds.north - bounds.south)))
    ELSE Sym("latFromMercatorY", y)

altitudeFromMercatorZ(z, y, bounds) ==
    IF Given(bounds)
    THEN RatMul(z, RatSub(FromInt(bounds.north), y))
    ELSE Sym("altitudeFromMercatorZ", <<z, y>>)

\* MercatorCoordinate.fromLngLat(lngLat, altitude, bounds)
fromLngLat(lng, lat, altitude, bounds) ==
    [x |-> mercatorXfromLng(lng, bounds),
     y |-> mercatorYfromLat(lat, bounds),
     z |-> mercatorZfromAltitude(altitude, lat, bounds)]

\* toLngLat(bounds)
toLngLat(c, bounds) ==
    [lng |-> lngFromMercatorX(c.x, bounds), lat |-> latFromMercatorY(c.y, bounds)]

\* toAltitude(bounds)
toAltitude(c, bounds) == altitudeFromMercatorZ(c.z, c.y, bounds)

(***************************************************************************)
(* Tiles.  A geometry field is a length varint followed by the command     *)
(* stream; the fields of a tile's features lie one after the other in buf. *)
(***************************************************************************)
RECURSIVE Concat(_)
Concat(ss) == IF ss = <<>> THEN <<>> ELSE Head(ss) \o Concat(Tail(ss))

\* Sequences over S of length at most n.
SeqsUpTo(S, n) == UNION {[1..k -> S] : k \in 0..n}

\* Command groups: a command varint (count << 3 | code) and its zigzag deltas.
CommandGroups ==
    { <<9, 2, 4>>,          \* MoveTo x1 (1, 2)
      <<1, 5, 3>>,          \* MoveTo, count 0 (-3, -2)
      <<10, 6, 1>>,         \* LineTo x1 (3, -1)
      <<18, 2, 2, 1, 6>>,   \* LineTo x2 (1, 1) (-1, 3)
      <<23>>,               \* ClosePath x2
      <<3>>,                \* code 3, count 0
      <<11>> }              \* code 3, count 1

\* Whole rings, for polygon, line and point features.
RingGroups ==
    { <<9, 2, 2, 18, 4, 0, 0, 4, 15>>,   \* triangle (1,1) (3,1) (3,3)
      <<9, 2, 2, 18, 0, 4, 4, 0, 15>>,   \* triangle, opposite winding
      <<9, 2, 2, 10, 4, 0, 15>>,         \* two points and back: no area
      <<9, 4, 2>> }                      \* a single point

\* The declared length is the payload's, one less (the field is cut short)
\* or one more (the field runs past the end of the buffer).
DeclaredLengths(payload) ==
    {n \in {Len(payload) - 1, Len(payload), Len(payload) + 1} : n >= 0}

\* The second feature of the decoder tiles: one point.
PointField == <<3, 9, 4, 2>>

Feature(geometry, type, extent) ==
    [geometry |-> geometry, type |-> type, extent |-> extent]

NoCall ==
    [op |-> "", self |-> 0, x |-> 0, y |-> 0, z |-> 0, bounds |-> NoBounds,
     again |-> FALSE]

\* deltas: the delta pairs read; emitted: the points pushed by MoveTo and
\* LineTo; moves: for each MoveTo, the number of pairs read up to it; cmds:
\* the command codes dispatched; head: the first of them (0: none yet).
\* classified: what the classifyRings call of toGeoJSON returned.
NoClassify == [ran |-> FALSE, polygons |-> <<>>, err |-> ""]

NoHist ==
    [deltas |-> <<>>, emitted |-> <<>>, moves |-> <<>>, cmds |-> {}, head |-> 0,
     classified |-> NoClassify]

NoResult == [status |-> "none", err |-> "", value |-> <<>>]

NoFirst == [set |-> FALSE, err |-> "", value |-> <<>>]

NoMerc == [stage |-> "none"]

Idle ==
    /\ pc = "idle"
    /\ call = NoCall
    /\ loc = EntryLocals(0)
    /\ hist = NoHist
    /\ result = NoResult

\* A tile of two features: a point, then a feature whose command stream is
\* any sequence of command groups.
Init ==
    /\ \E gs \in SeqsUpTo(CommandGroups, MaxCmds) :
         \E n \in DeclaredLengths(Concat(gs)) :
           buf = PointField \o <<n>> \o Concat(gs)
    /\ features = (1 :> Feature(Len(PointField), 3, 8) @@ 2 :> Feature(0, 1, 8))
    /\ pos = Len(buf)
    /\ first = [f \in DOMAIN features |-> NoFirst]
    /\ merc = NoMerc
    /\ Idle

\* A tile of one feature of any type whose geometry is a sequence of rings.
InitGeo ==
    /\ \E rs \in SeqsUpTo(RingGroups, MaxRings) :
         buf = <<Len(Concat(rs))>> \o Concat(rs)
    /\ \E t \in 0..3 : features = (1 :> Feature(0, t, 8))
    /\ pos = Len(buf)
    /\ first = [f \in DOMAIN features |-> NoFirst]
    /\ merc = NoMerc
    /\ Idle

(***************************************************************************)
(* The calls.                                                              *)
(***************************************************************************)
Thrown(err) == [status |-> "thrown", err |-> err, value |-> <<>>]

Returned(value) == [status |-> "returned", err |-> "", value |-> value]

\* The first loadGeometry outcome of a feature is kept for comparison.
Remember(op, f, res) ==
    first' = IF op = "loadGeometry" /\ ~first[f].set
             THEN [first EXCEPT ![f] =
                     [set |-> TRUE, err |-> res.err, value |-> res.value]]
             ELSE first

\* Entry of loadGeometry and bbox: pbf.pos = this._geometry;
\* end = pbf.readVarint() + pbf.pos; the locals.
Enter(op, f, x, y, z, bounds) ==
    LET start == IF op = "bbox" THEN BboxStartPos(features[f].geometry, pos)
                 ELSE StartPos(features[f].geometry, pos)
        r     == readVarint(buf, start)
    IN  /\ pc = "idle"
        /\ call' = [op |-> op, self |-> f, x |-> x, y |-> y, z |-> z,
                    bounds |-> bounds, again |-> first[f].set]
        /\ pos' = r.pos
        /\ hist' = NoHist
        /\ IF r.ok
           THEN /\ loc' = EntryLocals(r.val + r.pos)
                /\ pc' = "loop"
                /\ result' = NoResult
                /\ first' = first
           ELSE /\ loc' = loc
                /\ pc' = "thrown"
                /\ result' = Thrown("MalformedBuffer")
                /\ Remember(op, f, Thrown("MalformedBuffer"))
        /\ UNCHANGED <<buf, features, merc>>

\* this.loadGeometry()
LoadGeometry(f) == Enter("loadGeometry", f, 0, 0, 0, NoBounds)

\* this.bbox()
Bbox(f) == Enter("bbox", f, 0, 0, 0, NoBounds)

\* this.toGeoJSON(x, y, z, bounds), up to the entry of its loadGeometry call
ToGeoJSON(f, x, y, z, bounds) == Enter("toGeoJSON", f, x, y, z, bounds)

\* The history of a call after an iteration with outcome r.
Recorded(r, ran) ==
    LET cmd    == r.loc.cmd
        deltas == IF r.deltas # <<>> THEN Append(hist.deltas, r.deltas)
                  ELSE hist.deltas
        pushed == r.err = "" /\ cmd \in {1, 2} /\ call.op # "bbox"
    IN  [deltas  |-> deltas,
         emitted |-> IF pushed
                     THEN Append(hist.emitted, r.loc.line[Len(r.loc.line)])
                     ELSE hist.emitted,
         moves   |-> IF r.err = "" /\ cmd = 1 THEN Append(hist.moves, Len(deltas))
                     ELSE hist.moves,
         cmds    |-> IF ran THEN hist.cmds \cup {cmd} ELSE hist.cmds,
         head    |-> IF ran /\ hist.head = 0 THEN cmd ELSE hist.head,
         classified |-> hist.classified]

Iterate(r, ran) ==
    /\ pos' = r.pos
    /\ loc' = r.loc
    /\ hist' = Recorded(r, ran)
    /\ IF r.err = ""
       THEN /\ pc' = "loop"
            /\ result' = result
            /\ first' = first
       ELSE /\ pc' = "thrown"
            /\ result' = Thrown(r.err)
            /\ Remember(call.op, call.self, Thrown(r.err))
    /\ UNCHANGED <<buf, features, call, merc>>

\* while (pbf.pos < end) { ... } of loadGeometry, also when toGeoJSON called it
LoadGeometryIterate ==
    /\ pc = "loop"
    /\ call.op \in {"loadGeometry", "toGeoJSON"}
    /\ pos < loc.end
    /\ \E h \in {Header(buf, pos, loc)} :
       \E d \in {Deltas(buf, h.pos)} :
       \E r \in {LoadGeometryStep(loc, h, d)} : Iterate(r, h.ok)

\* while (pbf.pos < end) { ... } of bbox
BboxIterate ==
    /\ pc = "loop"
    /\ call.op = "bbox"
    /\ pos < loc.end
    /\ \E h \in {Header(buf, pos, loc)} :
       \E d \in {Deltas(buf, h.pos)} :
       \E r \in {BboxStep(loc, h, d)} : Iterate(r, h.ok)

Finish(res) ==
    /\ pc' = IF res.status = "thrown" THEN "thrown" ELSE "returned"
    /\ result' = res
    /\ Remember(call.op, call.self, res)
    /\ UNCHANGED <<buf, pos, features, call, loc, merc>>

\* loadGeometry leaves its loop and returns lines
LoadGeometryDone ==
    /\ pc = "loop"
    /\ call.op = "loadGeometry"
    /\ ~(pos < loc.end)
    /\ \E res \in {Returned(LoadGeometryReturn(loc))} : Finish(res)
    /\ hist' = hist

\* bbox leaves its loop and returns the box
BboxDone ==
    /\ pc = "loop"
    /\ call.op = "bbox"
    /\ ~(pos < loc.end)
    /\ \E res \in {Returned(BboxReturn(loc))} : Finish(res)
    /\ hist' = hist

\* toGeoJSON after its loadGeometry call returned: classify, project, wrap
ToGeoJSONDone ==
    /\ pc = "loop"
    /\ call.op = "toGeoJSON"
    /\ ~(pos < loc.end)
    /\ LET ft    == features[call.self]
           lines == LoadGeometryReturn(loc)
           g     == toGeoJSON(ft.type, ft.extent, lines,
                              call.x, call.y, call.z, call.bounds)
           c     == classifyRings(lines)
       IN  /\ Finish(IF g.err # "" THEN Thrown(g.err) ELSE Returned(g))
           /\ hist' = [hist EXCEPT !.classified =
                         IF ft.type = 3
                         THEN [ran |-> TRUE, polygons |-> c.polygons, err |-> c.err]
                         ELSE NoClassify]

\* The caller takes the result or the error; the next call may start.
Resume ==
    /\ pc \in {"returned", "thrown"}
    /\ pc' = "idle"
    /\ call' = NoCall
    /\ loc' = EntryLocals(0)
    /\ hist' = NoHist
    /\ result' = NoResult
    /\ UNCHANGED <<buf, pos, features, first, merc>>

\* The arguments of the toGeoJSON calls: tile 0/0/0 of the world, and tile
\* 1/1/0 of a layer with bounds.
SomeBounds == LngLatBounds(0, 0, 16, 8)

TileArgs ==
    { [x |-> 0, y |-> 0, z |-> 0, bounds |-> NoBounds],
      [x |-> 1, y |-> 0, z |-> 1, bounds |-> SomeBounds] }

Next ==
    \/ \E f \in DOMAIN features : LoadGeometry(f)
    \/ \E f \in DOMAIN features : Bbox(f)
    \/ \E f \in DOMAIN features, a \in TileArgs :
         ToGeoJSON(f, a.x, a.y, a.z, a.bounds)
    \/ LoadGeometryIterate
    \/ BboxIterate
    \/ LoadGeometryDone
    \/ BboxDone
    \/ ToGeoJSONDone
    \/ Resume

Spec == Init /\ [][Next]_vars

SpecGeo == InitGeo /\ [][Next]_vars

(***************************************************************************)
(* Termination of the decode loops: a tile of one feature, loadGeometry    *)
(* and bbox calls.  A synchronous call that can take a step takes it.      *)
(***************************************************************************)
MaxLive == 2        \* command groups in the geometry

InitLive ==
    /\ \E gs \in SeqsUpTo(CommandGroups, MaxLive) :
         \E n \in DeclaredLengths(Concat(gs)) :
           buf = <<n>> \o Concat(gs) \o <<9>>
    /\ features = (1 :> Feature(0, 2, 8))
    /\ pos = Len(buf)
    /\ first = [f \in DOMAIN features |-> NoFirst]
    /\ merc = NoMerc
    /\ Idle

NextLive ==
    \/ \E f \in DOMAIN features : LoadGeometry(f)
    \/ \E f \in DOMAIN features : Bbox(f)
    \/ LoadGeometryIterate
    \/ BboxIterate
    \/ LoadGeometryDone
    \/ BboxDone
    \/ Resume

\* The next step of the running call: an iteration or the return.
Running == LoadGeometryIterate \/ BboxIterate \/ LoadGeometryDone \/ BboxDone

SpecLive == InitLive /\ [][NextLive]_vars /\ WF_vars(Running)

(***************************************************************************)
(* MercatorCoordinate round trips: fromLngLat, then toLngLat and           *)
(* toAltitude with the same bounds argument.                               *)
(***************************************************************************)
InitMerc ==
    /\ buf = <<>>
    /\ features = <<>>
    /\ pos = 0
    /\ first = <<>>
    /\ Idle
    /\ \E w \in 0..1, s \in 0..1, given \in BOOLEAN :
       \E lng \in w..MaxDeg, lat \in s..MaxDeg, alt \in 0..2 :
         merc = [stage |-> "lngLat",
                 bounds |-> IF given THEN LngLatBounds(w, s, MaxDeg, MaxDeg)
                            ELSE NoBounds,
                 lng |-> FromInt(lng), lat |-> FromInt(lat), alt |-> FromInt(alt)]

\* MercatorCoordinate.fromLngLat(lngLat, altitude, bounds)
FromLngLat ==
    /\ merc.stage = "lngLat"
    /\ merc' = [stage |-> "mercator", bounds |-> merc.bounds,
                lng |-> merc.lng, lat |-> merc.lat, alt |-> merc.alt,
                coord |-> fromLngLat(merc.lng, merc.lat, merc.alt, merc.bounds)]
    /\ UNCHANGED <<buf, pos, features, pc, call, loc, hist, result, first>>

\* coord.toLngLat(bounds) and coord.toAltitude(bounds)
ToLngLatAltitude ==
    /\ merc.stage = "mercator"
    /\ merc' = [stage |-> "back", bounds |-> merc.bounds,
                lng |-> merc.lng, lat |-> merc.lat, alt |-> merc.alt,
                coord |-> merc.coord,
                lngLat |-> toLngLat(merc.coord, merc.bounds),
                altitude |-> toAltitude(merc.coord, merc.bounds)]
    /\ UNCHANGED <<buf, pos, features, pc, call, loc, hist, result, first>>

NextMerc == FromLngLat \/ ToLngLatAltitude

SpecMerc == InitMerc /\ [][NextMerc]_vars

(***************************************************************************)
(* Properties.                                                             *)
(***************************************************************************)
Decoding == pc # "idle" /\ call.op \in {"loadGeometry", "toGeoJSON"}

Self == features[call.self]

\* The sum of the first k delta pairs, as a point.
RECURSIVE SumOf(_, _, _)
SumOf(ds, k, c) == IF k = 0 THEN 0 ELSE ds[k][c] + SumOf(ds, k - 1, c)

PrefixSum(ds, k) == Point(SumOf(ds, k, 1), SumOf(ds, k, 2))

\* The rings stored so far and the open one.
AllRings == IF loc.open THEN Append(loc.lines, loc.line) ELSE loc.lines

PointsOf(lines) == UNION {{lines[i][j] : j \in 1..Len(lines[i])} : i \in 1..Len(lines)}

Least(S) == CHOOSE v \in S : \A w \in S : v <= w

Greatest(S) == CHOOSE v \in S : \A w \in S : v >= w

BoxOf(pts) ==
    IF pts = {} THEN <<Infinity, Infinity, NegInfinity, NegInfinity>>
    ELSE <<Least({q.x : q \in pts}), Least({q.y : q \in pts}),
           Greatest({q.x : q \in pts}), Greatest({q.y : q \in pts})>>

\* The first MoveTo/LineTo command of the running call, if any, is a MoveTo.
MoveToFirst == hist.deltas = <<>> \/ (hist.moves # <<>> /\ hist.moves[1] = 1)

\* C1: in loadGeometry, on a stream of MoveTo/LineTo/ClosePath commands that
\* begins with a MoveTo, the point pushed for the k-th delta pair is the sum
\* of the first k pairs read, whatever MoveTo and ClosePath commands came
\* before; the accumulator is that sum; and each MoveTo starts one ring whose
\* first point is the accumulated point.
C1_Cumulative ==
    (Decoding /\ hist.head = 1 /\ hist.cmds \subseteq {1, 2, 7}) =>
        /\ Len(hist.emitted) = Len(hist.deltas)
        /\ \A k \in 1..Len(hist.emitted) :
             hist.emitted[k] = PrefixSum(hist.deltas, k)
        /\ Point(loc.x, loc.y) = PrefixSum(hist.deltas, Len(hist.deltas))
        /\ Len(AllRings) = Len(hist.moves)
        /\ \A i \in 1..Len(hist.moves) :
             AllRings[i][1] = PrefixSum(hist.deltas, hist.moves[i])

\* A loadGeometry call returned two rings with a ClosePath executed, and the
\* second ring starts away from its own delta.
C1_Witness ==
    /\ pc = "returned" /\ call.op = "loadGeometry"
    /\ hist.head = 1 /\ 7 \in hist.cmds
    /\ Len(hist.moves) >= 2
    /\ result.value[2][1] #
         Point(hist.deltas[hist.moves[2]][1], hist.deltas[hist.moves[2]][2])

\* C2: in loadGeometry and bbox, once a command whose code is not 1, 2 or 7
\* is dispatched the call has thrown UnknownCommand and hands back nothing,
\* whatever came before and whatever its repeat count; a call that returns
\* has dispatched only codes 1, 2 and 7.
C2_UnknownCommandAborts ==
    /\ (pc # "idle" /\ hist.cmds \ {1, 2, 7} # {}) =>
          (pc = "thrown" /\ result = Thrown("UnknownCommand"))
    /\ (pc = "returned") => (hist.cmds \subseteq {1, 2, 7})

\* A loadGeometry call that had stored a ring threw on code 3 with count 0.
C2_Witness ==
    /\ pc = "thrown" /\ call.op = "loadGeometry"
    /\ result.err = "UnknownCommand"
    /\ loc.lines # <<>>
    /\ loc.cmd = 3 /\ loc.length = 0 - 1

BboxIsBoxOfDecode ==
    LET o == loadGeometry(buf, Self.geometry)
    IN  /\ o.err = ""
        /\ result.value = BoxOf(PointsOf(o.lines))
        /\ (PointsOf(o.lines) = {}) => (o.lines = <<>>)

\* C3 as written: whenever bbox returns, loadGeometry on the same feature
\* returns too and the box is the minimum and maximum x and y over all points
\* of all its rings (no points: the infinite box and no rings).
C3_AsWritten == (pc = "returned" /\ call.op = "bbox") => BboxIsBoxOfDecode

\* C3, amended: the same whenever bbox returns on a stream whose first
\* MoveTo/LineTo command, if any, is a MoveTo.
C3_BboxOfDecode ==
    (pc = "returned" /\ call.op = "bbox" /\ MoveToFirst) => BboxIsBoxOfDecode

\* bbox returned a box with extent in x and y on a stream with a ClosePath.
C3_Witness ==
    /\ pc = "returned" /\ call.op = "bbox" /\ MoveToFirst
    /\ 7 \in hist.cmds
    /\ result.value[1] < result.value[3]
    /\ result.value[2] < result.value[4]

\* C4: a loadGeometry call on a feature that was decoded before ends as that
\* feature's first loadGeometry call ended, with equal rings, whatever calls
\* on the features of the buffer ran in between.
C4_Repeatable ==
    (pc \in {"returned", "thrown"} /\ call.op = "loadGeometry" /\ call.again) =>
        /\ result.err = first[call.self].err
        /\ result.value = first[call.self].value

\* A repeated loadGeometry call returned rings after every feature of the
\* buffer had been decoded.
C4_Witness ==
    /\ pc = "returned" /\ call.op = "loadGeometry" /\ call.again
    /\ result.value # <<>>
    /\ \A f \in DOMAIN features : first[f].set

Sign(a) == IF a < 0 THEN 0 - 1 ELSE IF a > 0 THEN 1 ELSE 0

NonZero(rings) == SelectSeq(rings, LAMBDA r : signedArea(r) # 0)

Classified ==
    /\ pc = "returned" /\ call.op = "toGeoJSON" /\ Self.type = 3
    /\ hist.classified.ran

\* C5: classifyRings on two or more rings skips the zero-area rings; the
\* groups, joined in order, are the other rings in input order; each group
\* starts with a ring of the sign of the first non-zero-area ring and holds
\* only opposite-sign rings after it.  Two rings of opposite sign make one
\* group of two, two rings of the same sign two groups of one.
C5_Grouping ==
    (Classified /\ Len(LoadGeometryReturn(loc)) >= 2) =>
        LET rings == LoadGeometryReturn(loc)
            polys == hist.classified.polygons
            nz    == NonZero(rings)
            ref   == Sign(signedArea(nz[1]))
        IN  /\ Concat(polys) = nz
            /\ \A g \in 1..Len(polys) :
                 /\ Len(polys[g]) >= 1
                 /\ Sign(signedArea(polys[g][1])) = ref
                 /\ \A j \in 2..Len(polys[g]) :
                      Sign(signedArea(polys[g][j])) = 0 - ref
            /\ (Len(rings) = 2 /\ Len(nz) = 2) =>
                 IF Sign(signedArea(rings[1])) = Sign(signedArea(rings[2]))
                 THEN polys = <<(<<rings[1]>>), (<<rings[2]>>)>>
                 ELSE polys = <<(<<rings[1], rings[2]>>)>>

\* Three rings were classified into an exterior with a hole and a second
\* exterior.
C5_Witness ==
    /\ Classified
    /\ Len(LoadGeometryReturn(loc)) = 3
    /\ Len(hist.classified.polygons) = 2
    /\ Len(hist.classified.polygons[1]) = 2

\* The number of top-level groups of the running toGeoJSON call: the points
\* of a Point feature (one per decoded ring), the lines of a LineString
\* feature, the polygon groups of a Polygon feature.
Groups ==
    IF Self.type = 3 THEN Len(hist.classified.polygons)
    ELSE Len(LoadGeometryReturn(loc))

RECURSIVE LeavesAt(_, _)
LeavesAt(c, d) ==
    IF d = 0 THEN {c} ELSE UNION {LeavesAt(c[i], d - 1) : i \in 1..Len(c)}

Leaves(g, type) ==
    LeavesAt(g.coordinates, (type - 1) + (IF g.groups = 1 THEN 0 ELSE 1))

\* C7: every coordinate toGeoJSON emits is a projected pair, with and
\* without a bounds argument; no {x, y} point is left.
C7_AllProjected ==
    (pc = "returned" /\ call.op = "toGeoJSON" /\ Self.type \in 1..3) =>
        \A c \in Leaves(result.value, Self.type) : c.kind = "pair"

\* C8: with a bounds argument and a point of the bounds rectangle whose
\* projection is finite, toLngLat and toAltitude after fromLngLat give back
\* the longitude, the latitude and the altitude.
C8_RoundTrip ==
    (merc.stage = "back" /\ Given(merc.bounds) /\ IsFinite(merc.coord.z)) =>
        /\ RatEq(merc.lngLat.lng, merc.lng)
        /\ RatEq(merc.lngLat.lat, merc.lat)
        /\ RatEq(merc.altitude, merc.alt)

\* C9: every loadGeometry and bbox call that entered its loop returns or
\* throws.
C9_Terminates == (pc = "loop") ~> (pc \in {"returned", "thrown"})

\* A ClosePath with a repeat left and bytes left in the field: the next
\* iteration reads nothing.
C9_Witness ==
    /\ pc = "loop" /\ call.op = "bbox"
    /\ loc.cmd = 7 /\ loc.length = 1
    /\ pos < loc.end

\* C10: classifyRings never reaches polygon.push with no polygon started.
C10_NoOrphanHole ==
    (call.op = "toGeoJSON" /\ hist.classified.ran) => (hist.classified.err = "")

\* A ring of negative area came first and a hole was appended to it.
C10_Witness ==
    /\ Classified
    /\ Len(LoadGeometryReturn(loc)) >= 2
    /\ signedArea(LoadGeometryReturn(loc)[1]) < 0
    /\ Len(hist.classified.polygons) >= 1
    /\ Len(hist.classified.polygons[1]) >= 2

====
